---- MODULE Spec2Model ----
(***************************************************************************)
(* Verification model of hydrate-mongodb's UnitOfWork (src/src/unitOfWork.ts) *)
(* and TypeMapping.  The unit of work keeps an identity map, the recorded  *)
(* object states and four scheduling tables, all keyed by the hex string   *)
(* of an object's _id.  A type mapping keeps its property tables and, on   *)
(* the root of its inheritance hierarchy, the indexes and the              *)
(* discriminator table of the hierarchy.                                   *)
(***************************************************************************)
EXTENDS Integers, Sequences, FiniteSets, TLC

\* ------------------------------------------------------------------ bounds
NObj == 2          \* application objects / documents handed to the unit of work
NIds == 2          \* distinct ObjectId values the driver can produce
MaxTicks == 1      \* callbacks queued by process.nextTick and not yet run
NNames == 3        \* distinct property names
NFields == 3       \* distinct external field names
NTypes == 2        \* type mappings of the registry
NIndexes == 2      \* distinct index definitions
MaxIndexes == 2    \* addIndex calls per hierarchy
MaxExplicit == 1   \* attributes a mapping provider sets explicitly on one type
NMappings == 2     \* entity mappings of the registry the provider delivers

Objs == 1..NObj
ObjectIds == 1..NIds

\* JavaScript's undefined, one marker per kind of value it stands in for:
\* an absent obj._id, an absent hex string, an absent object
UndefinedId == 0
UndefinedKey == <<>>
UndefinedObj == 0

\* ObjectState (enum at unitOfWork.ts:17)
Managed == "Managed"
New == "New"
Detached == "Detached"
Removed == "Removed"
ObjectState == {Managed, New, Detached, Removed}

\* ChangeTracking modes of a mapping; NoMapping: getMappingForObject returns nothing
DeferredImplicit == "DeferredImplicit"
DeferredExplicit == "DeferredExplicit"
NoMapping == "NoMapping"
Mappings == {DeferredImplicit, DeferredExplicit, NoMapping}

\* messages of the errors thrown / passed to callbacks
NoError == "none"
ErrNotMapped == "Object is not mapped as a document type."
ErrSaveDetached == "Cannot save a detached object."
ErrSaveRemoved == "Cannot save a removed object."
ErrRemoveDetached == "Cannot remove a detached object."
ErrMissingKey == "Document missing primary key."
ErrInsertDirty == "Dirty object cannot be scheduled for insertion."
ErrInsertRemoved == "Removed object cannot be scheduled for insertion."
ErrInsertTwice == "Object is already scheduled for insertion."
ErrUpdateNoId == "Object missing identifier."
ErrNoMapping == "TypeError: Cannot read property 'changeTracking' of undefined"
ErrUpdateRemoved == "Removed object cannot be scheduled for update."

\* ------------------------------------------------------------------ helpers
HexDigits == <<"0","1","2","3","4","5","6","7","8","9","a","b","c","d","e","f">>

\* ObjectId.toHexString: the id rendered in hexadecimal (two digits here)
toHexString(id) == <<HexDigits[((id \div 16) % 16) + 1], HexDigits[(id % 16) + 1]>>

\* Map.hasProperty / Map.getProperty and JS property assignment / delete
hasProperty(map, key) == key \in DOMAIN map
getProperty(map, key) == IF key \in DOMAIN map THEN map[key] ELSE UndefinedObj
setProperty(map, key, value) ==
    [k \in (DOMAIN map) \cup {key} |-> IF k = key THEN value ELSE map[k]]
deleteProperty(map, key) == [k \in (DOMAIN map) \ {key} |-> map[k]]
EmptyMap == [k \in {} |-> UndefinedObj]

\* ------------------------------------------------------------------ state
VARIABLES
    ids,                  \* ids[o]: the _id field of object o (an ObjectId or UndefinedId)
    mappingOf,            \* mappingOf[o]: what the mapping registry holds for o's type
    objectStates,         \* _objectStates
    identityMap,          \* _identityMap
    scheduledUpdates,     \* _scheduledUpdates
    scheduledDeletions,   \* _scheduledDeletions
    scheduledInsertions,  \* _scheduledInsertions
    scheduledDirtyCheck,  \* _scheduledDirtyCheck
    ticks,                \* callbacks queued with process.nextTick, oldest first
    handedOut,            \* per hex string, the object load has answered with since the
                          \* last remove, and whether it did so more than once
    last,                 \* the most recent call and how it ended
    issued,               \* the write batches handed to the driver, oldest first
    props,                \* properties, _propertiesByName and _propertiesByField of
                          \* the type mapping that addProperty is called on
    rootType,             \* rootType[t]: the rootType field of type mapping t
    flags,                \* flags[t]: the TypeMappingFlags of type mapping t
    typeMappings,         \* typeMappings[t]: the other fields of type mapping t
    history,              \* what the mapping provider has called so far
    config,               \* the Configuration: _options, _optionsProcessed and the
                          \* collectionPrefix property set on it
    call                  \* the createSessionFactory call in progress

tables == <<objectStates, identityMap, scheduledUpdates, scheduledDeletions,
            scheduledInsertions, scheduledDirtyCheck>>
vars == <<ids, mappingOf, objectStates, identityMap, scheduledUpdates,
          scheduledDeletions, scheduledInsertions, scheduledDirtyCheck, ticks,
          handedOut, last, issued, props, rootType, flags, typeMappings,
          history, config, call>>
unitOfWork == <<ids, mappingOf, tables, ticks, handedOut, issued>>
registry == <<props, rootType, flags, typeMappings, history>>
configuration == <<config, call>>

\* The unit of work and the objects' _id fields as one value, so that the
\* private methods can be written as functions from state to state.
\* thrown: message of the exception that unwound the call, or NoError.
Uow == [ids |-> ids,
        objectStates |-> objectStates,
        identityMap |-> identityMap,
        scheduledUpdates |-> scheduledUpdates,
        scheduledDeletions |-> scheduledDeletions,
        scheduledInsertions |-> scheduledInsertions,
        scheduledDirtyCheck |-> scheduledDirtyCheck,
        thrown |-> NoError]

throw(u, msg) == [u EXCEPT !.thrown = msg]

\* _getObjectId: undefined when the object has no _id, else its hex string
getObjectId(u, o) == IF u.ids[o] /= UndefinedId THEN toHexString(u.ids[o]) ELSE UndefinedKey

\* _getObjectState
getObjectState(u, o) ==
    LET id == getObjectId(u, o) IN
    IF id = UndefinedKey THEN New
    ELSE IF hasProperty(u.objectStates, id) THEN u.objectStates[id]
    ELSE Detached

\* _addToIdentityMap
addToIdentityMap(u, o, id) ==
    IF hasProperty(u.identityMap, id) THEN u
    ELSE [u EXCEPT !.identityMap = setProperty(@, id, o),
                   !.objectStates = setProperty(@, id, Managed)]

\* variant of _removeFromIdentityMap: the recorded state is left as it was
removeFromIdentityMap_keepsState(u, id) ==
    IF ~hasProperty(u.identityMap, id) THEN u
    ELSE [u EXCEPT !.identityMap = deleteProperty(@, id)]

\* _removeFromIdentityMap
removeFromIdentityMap(u, id) ==
    IF ~hasProperty(u.identityMap, id) THEN u
    ELSE [u EXCEPT !.identityMap = deleteProperty(@, id),
                   !.objectStates = setProperty(@, id, Detached)]

\* variant of _computeChangeSets: does not test the scheduled insertions
computeChangeSets_ignoresInsertions(u, mappings) ==
    [selected |->
        {id \in DOMAIN u.identityMap :
            /\ mappings[u.identityMap[id]] /= NoMapping
            /\ \/ mappings[u.identityMap[id]] = DeferredImplicit
               \/ hasProperty(u.scheduledDirtyCheck, id)
            /\ getProperty(u.objectStates, id) = Managed},
     thrown |->
        IF \E id \in DOMAIN u.identityMap : mappings[u.identityMap[id]] = NoMapping
        THEN ErrNoMapping ELSE NoError]

\* _computeChangeSets: the identities of the identity map for which the loop
\* reaches the (commented out) call of _computeChangeSet; reading
\* changeTracking of an object without a mapping raises a TypeError
computeChangeSets(u, mappings) ==
    [selected |->
        {id \in DOMAIN u.identityMap :
            /\ mappings[u.identityMap[id]] /= NoMapping
            /\ \/ mappings[u.identityMap[id]] = DeferredImplicit
               \/ hasProperty(u.scheduledDirtyCheck, id)
            /\ getProperty(u.objectStates, id) = Managed
            /\ ~hasProperty(u.scheduledInsertions, id)},
     thrown |->
        IF \E id \in DOMAIN u.identityMap : mappings[u.identityMap[id]] = NoMapping
        THEN ErrNoMapping ELSE NoError]

\* _scheduleDirtyCheck
scheduleDirtyCheck(u, o) ==
    LET id == getObjectId(u, o) IN
    [u EXCEPT !.scheduledDirtyCheck = setProperty(@, id, o)]

\* variant of _scheduleInsert: forgets to register the object
scheduleInsert_unregistered(u, o) ==
    LET id == getObjectId(u, o) IN
    IF hasProperty(u.scheduledUpdates, id) THEN throw(u, ErrInsertDirty)
    ELSE IF hasProperty(u.scheduledDeletions, id) THEN throw(u, ErrInsertRemoved)
    ELSE IF hasProperty(u.scheduledInsertions, id) THEN throw(u, ErrInsertTwice)
    ELSE [u EXCEPT !.scheduledInsertions = setProperty(@, id, o)]

\* variant of _scheduleInsert: no check of the scheduled deletions
scheduleInsert_overDeletion(u, o) ==
    LET id == getObjectId(u, o) IN
    IF hasProperty(u.scheduledUpdates, id) THEN throw(u, ErrInsertDirty)
    ELSE IF hasProperty(u.scheduledInsertions, id) THEN throw(u, ErrInsertTwice)
    ELSE addToIdentityMap([u EXCEPT !.scheduledInsertions = setProperty(@, id, o)], o, id)

\* _scheduleInsert
scheduleInsert(u, o) ==
    LET id == getObjectId(u, o) IN
    IF hasProperty(u.scheduledUpdates, id) THEN throw(u, ErrInsertDirty)
    ELSE IF hasProperty(u.scheduledDeletions, id) THEN throw(u, ErrInsertRemoved)
    ELSE IF hasProperty(u.scheduledInsertions, id) THEN throw(u, ErrInsertTwice)
    ELSE addToIdentityMap([u EXCEPT !.scheduledInsertions = setProperty(@, id, o)], o, id)

\* variant of _scheduleUpdate: no check of the scheduled deletions
scheduleUpdate_overDeletion(u, o) ==
    LET id == getObjectId(u, o) IN
    IF id = UndefinedKey THEN throw(u, ErrUpdateNoId)
    ELSE IF ~hasProperty(u.scheduledInsertions, id)
         THEN [u EXCEPT !.scheduledUpdates = setProperty(@, id, o)]
    ELSE u

\* variant of _scheduleUpdate: no check of the scheduled insertions
scheduleUpdate_overInsertion(u, o) ==
    LET id == getObjectId(u, o) IN
    IF id = UndefinedKey THEN throw(u, ErrUpdateNoId)
    ELSE IF hasProperty(u.scheduledDeletions, id) THEN throw(u, ErrUpdateRemoved)
    ELSE [u EXCEPT !.scheduledUpdates = setProperty(@, id, o)]

\* _scheduleUpdate
scheduleUpdate(u, o) ==
    LET id == getObjectId(u, o) IN
    IF id = UndefinedKey THEN throw(u, ErrUpdateNoId)
    ELSE IF hasProperty(u.scheduledDeletions, id) THEN throw(u, ErrUpdateRemoved)
    ELSE IF ~hasProperty(u.scheduledInsertions, id)
         THEN [u EXCEPT !.scheduledUpdates = setProperty(@, id, o)]
    ELSE u

\* variant of _scheduleDelete: leaves a pending update in place
scheduleDelete_keepsUpdate(u, o) ==
    LET id == getObjectId(u, o) IN
    IF hasProperty(u.scheduledInsertions, id)
    THEN [removeFromIdentityMap(u, id) EXCEPT !.scheduledInsertions = deleteProperty(@, id)]
    ELSE IF ~hasProperty(u.identityMap, id) THEN u
    ELSE LET r == removeFromIdentityMap(u, id) IN
         [r EXCEPT !.objectStates = setProperty(@, id, Removed),
                   !.scheduledDeletions = setProperty(@, id, o)]

\* variant of _scheduleDelete: the early return after cancelling an insertion is missing
scheduleDelete_noReturn(u, o) ==
    LET id == getObjectId(u, o)
        c == IF hasProperty(u.scheduledInsertions, id)
             THEN [u EXCEPT !.scheduledInsertions = deleteProperty(@, id)]
             ELSE u
    IN  IF ~hasProperty(c.identityMap, id) THEN c
        ELSE LET r == removeFromIdentityMap(c, id) IN
             [r EXCEPT !.objectStates = setProperty(@, id, Removed),
                       !.scheduledUpdates = deleteProperty(@, id),
                       !.scheduledDeletions = setProperty(@, id, o)]

\* _scheduleDelete
scheduleDelete(u, o) ==
    LET id == getObjectId(u, o) IN
    IF hasProperty(u.scheduledInsertions, id)
    THEN [removeFromIdentityMap(u, id) EXCEPT !.scheduledInsertions = deleteProperty(@, id)]
    ELSE IF ~hasProperty(u.identityMap, id) THEN u
    ELSE LET r == removeFromIdentityMap(u, id) IN
         [r EXCEPT !.objectStates = setProperty(@, id, Removed),
                   !.scheduledUpdates = deleteProperty(@, id),
                   !.scheduledDeletions = setProperty(@, id, o)]

\* variant of save: schedules the dirty check whatever the change tracking
saveResult_alwaysDirtyCheck(u, o, mapping, newId) ==
    IF mapping = NoMapping THEN throw(u, ErrNotMapped)
    ELSE LET state == getObjectState(u, o) IN
         CASE state = Managed -> scheduleDirtyCheck(u, o)
           [] state = New ->
                scheduleInsert([u EXCEPT !.ids[o] = newId], o)
           [] state = Detached -> throw(u, ErrSaveDetached)
           [] state = Removed -> throw(u, ErrSaveRemoved)

\* variant of save: a detached object is scheduled for insertion again
saveResult_resavesDetached(u, o, mapping, newId) ==
    IF mapping = NoMapping THEN throw(u, ErrNotMapped)
    ELSE LET state == getObjectState(u, o) IN
         CASE state = Managed ->
                IF mapping = DeferredExplicit THEN scheduleDirtyCheck(u, o) ELSE u
           [] state = New ->
                scheduleInsert([u EXCEPT !.ids[o] = newId], o)
           [] state = Detached -> scheduleInsert(u, o)
           [] state = Removed -> throw(u, ErrSaveRemoved)

\* save(obj), with newId the value connection.driver.createObjectId() returns
saveResult(u, o, mapping, newId) ==
    IF mapping = NoMapping THEN throw(u, ErrNotMapped)
    ELSE LET state == getObjectState(u, o) IN
         CASE state = Managed ->
                IF mapping = DeferredExplicit THEN scheduleDirtyCheck(u, o) ELSE u
           [] state = New ->
                scheduleInsert([u EXCEPT !.ids[o] = newId], o)
           [] state = Detached -> throw(u, ErrSaveDetached)
           [] state = Removed -> throw(u, ErrSaveRemoved)

\* variant of remove: a detached object is ignored
removeResult_ignoresDetached(u, o, mapping) ==
    IF mapping = NoMapping THEN throw(u, ErrNotMapped)
    ELSE LET state == getObjectState(u, o) IN
         CASE state \in {New, Removed, Detached} -> u
           [] state = Managed -> scheduleDelete(u, o)

\* remove(obj)
removeResult(u, o, mapping) ==
    IF mapping = NoMapping THEN throw(u, ErrNotMapped)
    ELSE LET state == getObjectState(u, o) IN
         CASE state \in {New, Removed} -> u
           [] state = Managed -> scheduleDelete(u, o)
           [] state = Detached -> throw(u, ErrRemoveDetached)

\* load(document, callback): the callback invocation it queues with
\* process.nextTick, or NoTick when it returns without queuing one
\* (the branch after the identity-map lookup is empty in the source).
NoTick == [err |-> NoError, obj |-> UndefinedObj]

\* variant of load: on a hit it answers with the document it was given
loadResult_returnsDocument(u, d) ==
    LET id == getObjectId(u, d) IN
    IF id = UndefinedKey
    THEN [err |-> ErrMissingKey, obj |-> UndefinedObj]
    ELSE LET obj == getProperty(u.identityMap, id) IN
         IF obj /= UndefinedObj
         THEN [err |-> NoError, obj |-> d]
         ELSE NoTick

\* variant of load: a document without a primary key is passed over in silence
loadResult_missingKeyUnreported(u, d) ==
    LET id == getObjectId(u, d) IN
    IF id = UndefinedKey
    THEN NoTick
    ELSE LET obj == getProperty(u.identityMap, id) IN
         IF obj /= UndefinedObj
         THEN [err |-> NoError, obj |-> obj]
         ELSE NoTick

loadResult(u, d) ==
    LET id == getObjectId(u, d) IN
    IF id = UndefinedKey
    THEN [err |-> ErrMissingKey, obj |-> UndefinedObj]
    ELSE LET obj == getProperty(u.identityMap, id) IN
         IF obj /= UndefinedObj
         THEN [err |-> NoError, obj |-> obj]
         ELSE NoTick

\* ------------------------------------------------------------------ TypeMapping
Types == 1..NTypes
Names == 1..NNames
Fields == 1..NFields
Indexes == 1..NIndexes

\* reflect.Type.getName() of the class a type mapping was created for
TypeNames == <<"A", "B", "C", "D", "E", "F">>
getName(t) == TypeNames[t]

\* JavaScript's undefined in a string- or enum-valued field, and in the
\* indexes field (index definitions are numbered from 1)
Undefined == "undefined"
UndefinedIndexes == <<0>>

\* TypeMappingFlags
DocumentType == "DocumentType"
EmbeddedType == "EmbeddedType"
RootType == "RootType"
isDocumentType(t) == DocumentType \in flags[t]
isRootType(t) == RootType \in flags[t]

ErrDupName == "There is already a mapped property with the name."
ErrDupField == "There is already a mapped property for field."
ErrDupDiscriminator == "There is already a class with a discriminator value."

\* the fields of a TypeMapping when its constructor returns; the discriminator
\* map, created on first use, starts as the empty map
NewTypeMapping ==
    [indexes |-> UndefinedIndexes,
     discriminatorField |-> Undefined,
     discriminatorValue |-> Undefined,
     discriminatorMap |-> EmptyMap,
     changeTracking |-> Undefined,
     versionField |-> Undefined,
     lockField |-> Undefined,
     collectionName |-> Undefined]

\* the property tables of a TypeMapping when its constructor returns; the
\* three are created together by the first addProperty
NewProps ==
    [created |-> FALSE,
     properties |-> <<>>,
     propertiesByName |-> EmptyMap,
     propertiesByField |-> EmptyMap,
     thrown |-> NoError]

\* the type mappings as one value, for methods written as functions;
\* thrown: message of the exception that unwound the call, or NoError
Registry == [typeMappings |-> typeMappings, thrown |-> NoError]

\* !x on a field that holds a non-empty string, an enum member or undefined
Falsy(x) == x = Undefined

\* variant of addIndex: the index is stored on the mapping it was added to
addIndexResult_onSelf(r, t, index) ==
    [r EXCEPT !.typeMappings[t].indexes =
        IF @ = UndefinedIndexes THEN <<index>> ELSE Append(@, index)]

\* addIndex(index) on type mapping t
addIndexResult(r, t, index) ==
    LET owner == IF ~isRootType(t) THEN rootType[t] ELSE t IN
    [r EXCEPT !.typeMappings[owner].indexes =
        IF @ = UndefinedIndexes THEN <<index>> ELSE Append(@, index)]

\* variant of addProperty: the field table is not consulted
addPropertyResult_noFieldCheck(p, property) ==
    LET q == [p EXCEPT !.created = TRUE] IN
    IF hasProperty(q.propertiesByName, property.name) THEN throw(q, ErrDupName)
    ELSE [q EXCEPT !.propertiesByName = setProperty(@, property.name, property),
                   !.propertiesByField = setProperty(@, property.field, property),
                   !.properties = Append(@, property)]

\* addProperty(property)
addPropertyResult(p, property) ==
    LET q == [p EXCEPT !.created = TRUE] IN
    IF hasProperty(q.propertiesByName, property.name) THEN throw(q, ErrDupName)
    ELSE LET n == [q EXCEPT !.propertiesByName = setProperty(@, property.name, property)] IN
         IF hasProperty(n.propertiesByField, property.field) THEN throw(n, ErrDupField)
         ELSE [n EXCEPT !.propertiesByField = setProperty(@, property.field, property),
                        !.properties = Append(@, property)]

\* getMappingByDiscriminator(value) on type mapping t; UndefinedObj when the
\* root's table lacks the value
getMappingByDiscriminator(r, t, value) ==
    getProperty(r.typeMappings[rootType[t]].discriminatorMap, value)

\* variant of addDiscriminatorMapping: a value already in the table is reassigned
addDiscriminatorMapping_overwrites(r, root, value, t) ==
    [r EXCEPT !.typeMappings[root].discriminatorMap = setProperty(@, value, t)]

\* addDiscriminatorMapping(value, mapping) on type mapping root
addDiscriminatorMapping(r, root, value, t) ==
    IF hasProperty(r.typeMappings[root].discriminatorMap, value)
    THEN throw(r, ErrDupDiscriminator)
    ELSE [r EXCEPT !.typeMappings[root].discriminatorMap = setProperty(@, value, t)]

\* setDiscriminatorValue(value) on type mapping t
setDiscriminatorValueResult(r, t, value) ==
    addDiscriminatorMapping([r EXCEPT !.typeMappings[t].discriminatorValue = value],
                            rootType[t], value, t)

\* variant of addDefaultMappings: the defaults replace what was set before
addDefaultMappingsResult_overrides(r, t) ==
    IF ~isDocumentType(t) THEN r
    ELSE LET m == r.typeMappings[t]
             d == IF isRootType(t)
                  THEN [m EXCEPT !.discriminatorField = "__t",
                                 !.lockField = "__l",
                                 !.versionField = "__v",
                                 !.changeTracking = DeferredImplicit,
                                 !.collectionName = getName(t)]
                  ELSE [m EXCEPT !.discriminatorField =
                                      r.typeMappings[rootType[t]].discriminatorField]
             n == [r EXCEPT !.typeMappings[t] = d]
         IN  IF Falsy(d.discriminatorValue)
             THEN setDiscriminatorValueResult(n, t, getName(t))
             ELSE n

\* variant of addDefaultMappings: a non-root type keeps a discriminator field of its own
addDefaultMappingsResult_ownField(r, t) ==
    IF ~isDocumentType(t) THEN r
    ELSE LET m == r.typeMappings[t]
             d == IF isRootType(t)
                  THEN [m EXCEPT !.discriminatorField = IF Falsy(@) THEN "__t" ELSE @,
                                 !.lockField = IF Falsy(@) THEN "__l" ELSE @,
                                 !.versionField = IF Falsy(@) THEN "__v" ELSE @,
                                 !.changeTracking = IF Falsy(@) THEN DeferredImplicit ELSE @,
                                 !.collectionName = IF Falsy(@) THEN getName(t) ELSE @]
                  ELSE [m EXCEPT !.discriminatorField =
                            IF Falsy(@)
                            THEN r.typeMappings[rootType[t]].discriminatorField
                            ELSE @]
             n == [r EXCEPT !.typeMappings[t] = d]
         IN  IF Falsy(d.discriminatorValue)
             THEN setDiscriminatorValueResult(n, t, getName(t))
             ELSE n

\* variant of addDefaultMappings: the default discriminator value is assigned
\* to the field without going through the root's table
addDefaultMappingsResult_valueUnregistered(r, t) ==
    IF ~isDocumentType(t) THEN r
    ELSE LET m == r.typeMappings[t]
             d == IF isRootType(t)
                  THEN [m EXCEPT !.discriminatorField = IF Falsy(@) THEN "__t" ELSE @,
                                 !.lockField = IF Falsy(@) THEN "__l" ELSE @,
                                 !.versionField = IF Falsy(@) THEN "__v" ELSE @,
                                 !.changeTracking = IF Falsy(@) THEN DeferredImplicit ELSE @,
                                 !.collectionName = IF Falsy(@) THEN getName(t) ELSE @]
                  ELSE [m EXCEPT !.discriminatorField =
                                      r.typeMappings[rootType[t]].discriminatorField]
         IN  [r EXCEPT !.typeMappings[t] =
                 [d EXCEPT !.discriminatorValue = IF Falsy(@) THEN getName(t) ELSE @]]

\* addDefaultMappings(config) on type mapping t
addDefaultMappingsResult(r, t) ==
    IF ~isDocumentType(t) THEN r
    ELSE LET m == r.typeMappings[t]
             d == IF isRootType(t)
                  THEN [m EXCEPT !.discriminatorField = IF Falsy(@) THEN "__t" ELSE @,
                                 !.lockField = IF Falsy(@) THEN "__l" ELSE @,
                                 !.versionField = IF Falsy(@) THEN "__v" ELSE @,
                                 !.changeTracking = IF Falsy(@) THEN DeferredImplicit ELSE @,
                                 !.collectionName = IF Falsy(@) THEN getName(t) ELSE @]
                  ELSE [m EXCEPT !.discriminatorField =
                                      r.typeMappings[rootType[t]].discriminatorField]
             n == [r EXCEPT !.typeMappings[t] = d]
         IN  IF Falsy(d.discriminatorValue)
             THEN setDiscriminatorValueResult(n, t, getName(t))
             ELSE n

\* ------------------------------------------------------------------ Configuration
\* values of the uri and declarationFiles options
UriString == "mongodb://localhost/db"
NotAString == "27017 (a number)"
FilesArray == "an array of paths"
FilesNotArray == "a path (a string)"

\* the options object passed to the constructor; given is FALSE when the
\* constructor is called without one (_options is undefined)
NoOptions == [given |-> FALSE, uri |-> Undefined, declarationFiles |-> Undefined]
Options ==
    {NoOptions} \cup [given : {TRUE},
                      uri : {Undefined, UriString, NotAString},
                      declarationFiles : {Undefined, FilesArray, FilesNotArray}]

ErrNoConnection == "A database connection must be passed to createSessionFactory."
ErrUriType == "Connection URI expected to be of type string."
ErrFilesType == "Expected declarationFiles to be of type array."
ErrMissingCollection == "Missing collection name on mapping."
ErrDuplicateCollection == "Duplicate collection name."
ErrDriver == "error of the database driver"
ErrProvider == "error of the mapping provider"
ErrOptionsUndefined == "TypeError: Cannot read property 'uri' of undefined"

\* connection.db.databaseName
ConnectionDb == "db"

\* the entity mappings a registry may hold: flags & InheritanceRoot,
\* databaseName and collectionName (a mapping's id is its position)
EntityMappings ==
    [root : {TRUE}, databaseName : {Undefined, ConnectionDb, "other"}, collectionName : {"c"}]
    \cup [root : {TRUE}, databaseName : {Undefined}, collectionName : {"d"}]
    \cup [root : {TRUE}, databaseName : {Undefined}, collectionName : {Undefined}]
    \cup [root : {FALSE}, databaseName : {Undefined}, collectionName : {"c"}]
Registries == UNION {[1..n -> EntityMappings] : n \in 0..NMappings}

\* new Configuration(options)
NewConfiguration(options) ==
    [options |-> options, optionsProcessed |-> FALSE, collectionPrefix |-> Undefined]

\* the state of one createSessionFactory call: where it stands, the registry
\* it got, per mapping how far the iterator's driver calls are, the locals
\* names and collections of _buildCollections, the callbacks queued with
\* process.nextTick, the counter and the spent callback of async.each, the
\* invocations of the caller's callback, and what the call raised
NoFactoryCall ==
    [stage |-> "none", mappings |-> <<>>, items |-> <<>>, names |-> {},
     collections |-> {}, queue |-> <<>>, completed |-> 0, finished |-> FALSE,
     delivered |-> <<>>, thrown |-> NoError]

NoConfiguration ==
    /\ config = NewConfiguration(NoOptions)
    /\ call = NoFactoryCall

Factory == [config |-> config, call |-> call]

\* the caller's callback is invoked with an error or with a session factory
deliver(c, err) ==
    [c EXCEPT !.delivered = Append(@, [err |-> err, factory |-> err = NoError])]

\* the key _buildCollections files a root mapping under
key(m) ==
    (IF Falsy(m.databaseName) THEN ConnectionDb ELSE m.databaseName)
        \o "/" \o m.collectionName

\* done(err) of the iterator: callback(err) is queued with process.nextTick
done(c, i, err) ==
    [c EXCEPT !.queue = Append(@, [item |-> i, err |-> err]), !.items[i] = "tick"]

\* variant of the iterator: mappings that are not inheritance roots take part
iterator_checksAll(c, i) ==
    LET m == c.mappings[i] IN
    IF Falsy(m.collectionName) THEN done(c, i, ErrMissingCollection)
    ELSE IF key(m) \in c.names THEN done(c, i, ErrDuplicateCollection)
    ELSE [c EXCEPT !.names = @ \cup {key(m)}, !.items[i] = "collectionNames"]

\* the iterator _buildCollections passes to async.each, up to its call of
\* db.collectionNames
iterator(c, i) ==
    LET m == c.mappings[i] IN
    IF ~m.root THEN done(c, i, NoError)
    ELSE IF Falsy(m.collectionName) THEN done(c, i, ErrMissingCollection)
    ELSE IF key(m) \in c.names THEN done(c, i, ErrDuplicateCollection)
    ELSE [c EXCEPT !.names = @ \cup {key(m)}, !.items[i] = "collectionNames"]

\* the final callback of async.each in _buildCollections followed by the
\* callback _createFactory passed to _buildCollections
collectionsBuilt(c, err) == deliver(c, err)

\* async.each: the iterator is called for every mapping in turn, before any
\* callback runs; an empty array calls the final callback at once
RECURSIVE each(_, _)
each(c, i) ==
    IF Len(c.mappings) = 0 THEN collectionsBuilt(c, NoError)
    ELSE IF i > Len(c.mappings) THEN c
    ELSE each(iterator(c, i), i + 1)

\* async.each's callback of item i: the first error goes to the final
\* callback, which is then replaced by a no-op; otherwise the final callback
\* is called when every item has completed
eachDone(c, i, err) ==
    LET d == [c EXCEPT !.items[i] = "done"] IN
    IF err /= NoError
    THEN [(IF c.finished THEN d ELSE collectionsBuilt(d, err)) EXCEPT !.finished = TRUE]
    ELSE LET e == [d EXCEPT !.completed = @ + 1] IN
         IF e.completed >= Len(c.mappings) /\ ~c.finished
         THEN collectionsBuilt(e, NoError) ELSE e

\* _buildCollections(connection, registry, callback)
buildCollections(c, mappings) ==
    each([c EXCEPT !.stage = "building", !.mappings = mappings,
                   !.items = [i \in 1..Len(mappings) |-> "start"]], 1)

\* _createFactory(connection, callback) up to its call of getMapping
createFactory(f) ==
    LET files == IF f.config.options.given THEN f.config.options.declarationFiles
                 ELSE Undefined
        g == [f EXCEPT !.config.optionsProcessed = TRUE]
    IN  IF ~f.config.optionsProcessed /\ ~Falsy(files) /\ files /= FilesArray
        THEN [g EXCEPT !.call = deliver([@ EXCEPT !.stage = "returned"], ErrFilesType)]
        ELSE [g EXCEPT !.call.stage = "getMapping"]

\* createSessionFactory(callback) when withConnection is FALSE,
\* createSessionFactory(connection, callback) when it is TRUE, up to the
\* first call that completes later
createSessionFactoryResult(f, withConnection) ==
    LET g == [f EXCEPT !.call = NoFactoryCall]
        uri == f.config.options.uri
        first == IF Falsy(uri) THEN ErrNoConnection ELSE NoError
        error == IF uri /= UriString THEN ErrUriType ELSE first
    IN  IF withConnection THEN createFactory(g)
        ELSE IF ~f.config.options.given
             THEN [g EXCEPT !.call.stage = "returned", !.call.thrown = ErrOptionsUndefined]
        ELSE IF error /= NoError
             THEN [g EXCEPT !.call = deliver([@ EXCEPT !.stage = "returned"], error)]
        ELSE [g EXCEPT !.call.stage = "connect"]

\* nothing of the call is outstanding: no driver or provider callback, no
\* queued callback
Quiescent(c) ==
    /\ c.stage \in {"returned", "building"}
    /\ c.queue = <<>>
    /\ \A i \in DOMAIN c.items : c.items[i] = "done"

\* ------------------------------------------------------------------ actions
Commit(u) ==
    /\ ids' = u.ids
    /\ objectStates' = u.objectStates
    /\ identityMap' = u.identityMap
    /\ scheduledUpdates' = u.scheduledUpdates
    /\ scheduledDeletions' = u.scheduledDeletions
    /\ scheduledInsertions' = u.scheduledInsertions
    /\ scheduledDirtyCheck' = u.scheduledDirtyCheck

\* last.obj is the object a callback received or the type mapping a mapping
\* method was called on; the calls on the unit of work record none
NoCall == [op |-> "none", obj |-> UndefinedObj, result |-> NoError]

\* The unit of work tells objects apart only by reference, so every choice of
\* objects is a renumbering of one in which the objects are listed by
\* mapping and then by _id; Init draws those.
MappingOrder == <<DeferredExplicit, DeferredImplicit, NoMapping>>
Rank(m, i) == (CHOOSE n \in DOMAIN MappingOrder : MappingOrder[n] = m) * (NIds + 1) + i
Listed(m, i) == \A o \in Objs \ {NObj} : Rank(m[o], i[o]) <= Rank(m[o + 1], i[o + 1])

\* what the mapping provider has called: per root the indexes added through
\* the types of its hierarchy, and per type whether addDefaultMappings was run
\* on it, and if so whether its root had been run by then
NotRun == "not run"
RunAfterRoot == "run, root first"
RunBeforeRoot == "run before its root"
NoHistory == [indexes |-> [t \in Types |-> <<>>], defaults |-> [t \in Types |-> NotRun]]

\* a registry that holds no type mapping yet
NoRegistry ==
    /\ props = NewProps
    /\ rootType = <<>>
    /\ flags = <<>>
    /\ typeMappings = <<>>
    /\ history = [indexes |-> <<>>, defaults |-> <<>>]

\* a unit of work nothing has been handed to
NoUnitOfWork ==
    /\ ids = [o \in Objs |-> UndefinedId]
    /\ mappingOf = [o \in Objs |-> NoMapping]
    /\ objectStates = EmptyMap
    /\ identityMap = EmptyMap
    /\ scheduledUpdates = EmptyMap
    /\ scheduledDeletions = EmptyMap
    /\ scheduledInsertions = EmptyMap
    /\ scheduledDirtyCheck = EmptyMap
    /\ ticks = <<>>
    /\ handedOut = EmptyMap
    /\ issued = <<>>

Init ==
    /\ ids \in [Objs -> ObjectIds \cup {UndefinedId}]
    /\ mappingOf \in [Objs -> Mappings]
    /\ Listed(mappingOf, ids)
    /\ objectStates = EmptyMap
    /\ identityMap = EmptyMap
    /\ scheduledUpdates = EmptyMap
    /\ scheduledDeletions = EmptyMap
    /\ scheduledInsertions = EmptyMap
    /\ scheduledDirtyCheck = EmptyMap
    /\ ticks = <<>>
    /\ handedOut = EmptyMap
    /\ last = NoCall
    /\ issued = <<>>
    /\ NoRegistry
    /\ NoConfiguration

\* save(obj); the driver's createObjectId() may return any ObjectId
save(o) ==
    \E newId \in ObjectIds :
        LET r == saveResult(Uow, o, mappingOf[o], newId) IN
        /\ Commit(r)
        /\ last' = [op |-> "save", obj |-> UndefinedObj, result |-> r.thrown]
        /\ UNCHANGED <<mappingOf, ticks, handedOut, issued, registry, configuration>>

\* remove(obj)
remove(o) ==
    LET r == removeResult(Uow, o, mappingOf[o]) IN
    /\ Commit(r)
    /\ last' = [op |-> "remove", obj |-> UndefinedObj, result |-> r.thrown]
    /\ handedOut' = EmptyMap
    /\ UNCHANGED <<mappingOf, ticks, issued, registry, configuration>>

\* load(document, callback)
load(d) ==
    LET t == loadResult(Uow, d) IN
    /\ Len(ticks) < MaxTicks
    /\ ticks' = IF t = NoTick THEN ticks ELSE Append(ticks, t)
    /\ handedOut' = IF t.obj = UndefinedObj THEN handedOut
                    ELSE setProperty(handedOut, getObjectId(Uow, d),
                             [obj |-> t.obj,
                              again |-> hasProperty(handedOut, getObjectId(Uow, d))])
    /\ last' = [op |-> "load", obj |-> UndefinedObj, result |-> NoError]
    /\ UNCHANGED <<ids, mappingOf, tables, issued, registry, configuration>>

\* the event loop runs the oldest callback queued with process.nextTick
runTick ==
    /\ ticks /= <<>>
    /\ ticks' = Tail(ticks)
    /\ last' = [op |-> "callback", obj |-> Head(ticks).obj, result |-> Head(ticks).err]
    /\ UNCHANGED <<ids, mappingOf, tables, handedOut, issued, registry, configuration>>

\* _scheduleUpdate(obj): its one call, in the change-set computation that
\* walks the identity map, is commented out in the source; the step passes an
\* object of the identity map as that walk does (obj = _identityMap[id])
update(o) ==
    LET r == scheduleUpdate(Uow, o) IN
    /\ getProperty(identityMap, getObjectId(Uow, o)) = o
    /\ Commit(r)
    /\ last' = [op |-> "update", obj |-> UndefinedObj, result |-> r.thrown]
    /\ UNCHANGED <<mappingOf, ticks, handedOut, issued, registry, configuration>>

\* load of a document whose identity is not in the identity map registers the
\* deserialized instance (here the instance shares the document's slot)
register(d) ==
    LET id == getObjectId(Uow, d) IN
    /\ id /= UndefinedKey
    /\ ~hasProperty(identityMap, id)
    /\ Commit(addToIdentityMap(Uow, d, id))
    /\ last' = [op |-> "register", obj |-> UndefinedObj, result |-> NoError]
    /\ UNCHANGED <<mappingOf, ticks, handedOut, issued, registry, configuration>>

\* flush(callback): the method body is empty in the source: it hands no batch
\* to the driver, touches no table and never invokes the callback
flush ==
    /\ last' = [op |-> "flush", obj |-> UndefinedObj, result |-> NoError]
    /\ UNCHANGED <<ids, mappingOf, tables, ticks, handedOut, issued, registry, configuration>>

NextApi ==
    \/ \E o \in Objs : save(o)
    \/ \E o \in Objs : remove(o)
    \/ \E d \in Objs : load(d)
    \/ runTick

Next ==
    \/ \E o \in Objs : save(o)
    \/ \E o \in Objs : remove(o)
    \/ \E o \in Objs : update(o)
    \/ \E d \in Objs : register(d)

NextWrite ==
    \/ \E o \in Objs : save(o)
    \/ \E o \in Objs : remove(o)
    \/ flush

\* every object starts without an _id, so that every identity is one the
\* driver has issued
InitUnique ==
    /\ Init
    /\ ids = [o \in Objs |-> UndefinedId]

\* the driver's createObjectId() has returned an identity no object carries
FreshId(o) == ids'[o] = ids[o] \/ \A p \in Objs \ {o} : ids[p] /= ids'[o]

NextUnique ==
    \/ \E o \in Objs : save(o) /\ FreshId(o)
    \/ \E o \in Objs : remove(o)
    \/ \E d \in Objs : load(d)
    \/ runTick

\* save, remove and load as the source implements them, with a driver that
\* never issues an identity twice
SpecUnique == InitUnique /\ [][NextUnique]_vars

\* save, remove and load exactly as the source implements them
SpecApi == Init /\ [][NextApi]_vars

\* the calls that schedule writes and the call that is to issue them, exactly
\* as the source implements them; load as implemented changes no table
SpecWrite == Init /\ [][NextWrite]_vars

\* save and remove together with the internal registration and update steps,
\* which produce the tracked objects that are not pending insertion; load as
\* implemented changes no table, so the tables evolve here as under all calls
Spec == Init /\ [][Next]_vars

\* ------------------------------------------------------------------ mapping actions
\* the hierarchies a mapping provider links: every type points at the root
\* of its hierarchy (a root at itself), the root carries the RootType flag,
\* and the types of a hierarchy are all document types or all embedded types;
\* the types are numbered so that a root comes before its descendants
Linked ==
    /\ rootType \in [Types -> Types]
    /\ \A t \in Types : rootType[t] <= t /\ rootType[rootType[t]] = rootType[t]
    /\ \E kind \in [Types -> {DocumentType, EmbeddedType}] :
          flags = [t \in Types |->
                      {kind[rootType[t]]} \cup (IF rootType[t] = t THEN {RootType} ELSE {})]

\* the attributes a provider may set before the defaults are added, and the
\* values it sets them to
Explicit ==
    [discriminatorField : {"type"}, attr : {"discriminatorField"}]
    \cup [lockField : {"lock"}, attr : {"lockField"}]
    \cup [versionField : {"version"}, attr : {"versionField"}]
    \cup [collectionName : {"things"}, attr : {"collectionName"}]
    \cup [changeTracking : {DeferredImplicit, DeferredExplicit}, attr : {"changeTracking"}]

\* NewTypeMapping with the settings of the set e
WithExplicit(e) ==
    [f \in DOMAIN NewTypeMapping |->
        IF \E x \in e : x.attr = f THEN (CHOOSE x \in e : x.attr = f)[f]
        ELSE NewTypeMapping[f]]

Settings ==
    {e \in SUBSET Explicit :
        /\ Cardinality(e) <= MaxExplicit
        /\ \A x, y \in e : x.attr = y.attr => x = y}

InitProperty ==
    /\ NoUnitOfWork
    /\ NoRegistry
    /\ NoConfiguration
    /\ last = NoCall

InitIndex ==
    /\ NoUnitOfWork
    /\ Linked
    /\ props = NewProps
    /\ typeMappings = [t \in Types |-> NewTypeMapping]
    /\ history = NoHistory
    /\ NoConfiguration
    /\ last = NoCall

InitDiscriminator == InitIndex

InitDefaults ==
    /\ NoUnitOfWork
    /\ Linked
    /\ props = NewProps
    /\ \E e \in [Types -> Settings] : typeMappings = [t \in Types |-> WithExplicit(e[t])]
    /\ history = NoHistory
    /\ NoConfiguration
    /\ last = NoCall

\* addProperty(property) on the type mapping under construction
addProperty(property) ==
    LET p == addPropertyResult(props, property) IN
    /\ props' = [p EXCEPT !.thrown = NoError]
    /\ last' = [op |-> "addProperty", obj |-> UndefinedObj, result |-> p.thrown]
    /\ UNCHANGED <<unitOfWork, configuration, rootType, flags, typeMappings, history>>

\* addIndex(index) on type mapping t
addIndex(t, index) ==
    LET r == addIndexResult(Registry, t, index) IN
    /\ Len(history.indexes[rootType[t]]) < MaxIndexes
    /\ typeMappings' = r.typeMappings
    /\ history' = [history EXCEPT !.indexes[rootType[t]] = Append(@, index)]
    /\ last' = [op |-> "addIndex", obj |-> t, result |-> r.thrown]
    /\ UNCHANGED <<unitOfWork, configuration, props, rootType, flags>>

\* setDiscriminatorValue(value) on type mapping t
setDiscriminatorValue(t, value) ==
    LET r == setDiscriminatorValueResult(Registry, t, value) IN
    /\ typeMappings' = r.typeMappings
    /\ last' = [op |-> "setDiscriminatorValue", obj |-> t, result |-> r.thrown]
    /\ UNCHANGED <<unitOfWork, configuration, props, rootType, flags, history>>

\* addDefaultMappings(config) on type mapping t
addDefaultMappings(t) ==
    LET r == addDefaultMappingsResult(Registry, t) IN
    /\ typeMappings' = r.typeMappings
    /\ history' = [history EXCEPT !.defaults[t] =
                      IF isRootType(t) \/ history.defaults[rootType[t]] /= NotRun
                      THEN RunAfterRoot ELSE RunBeforeRoot]
    /\ last' = [op |-> "addDefaultMappings", obj |-> t, result |-> r.thrown]
    /\ UNCHANGED <<unitOfWork, configuration, props, rootType, flags>>

NextProperty == \E name \in Names, field \in Fields : addProperty([name |-> name, field |-> field])
NextIndex == \E t \in Types, index \in Indexes : addIndex(t, index)
NextDiscriminator == \E t \in Types, u \in Types : setDiscriminatorValue(t, getName(u))
NextDefaults == \E t \in Types : addDefaultMappings(t)

\* the provider populating the property tables of one type mapping
SpecProperty == InitProperty /\ [][NextProperty]_vars

\* the provider adding indexes to the type mappings of linked hierarchies
SpecIndex == InitIndex /\ [][NextIndex]_vars

\* the provider setting discriminator values in linked hierarchies
SpecDiscriminator == InitDiscriminator /\ [][NextDiscriminator]_vars

NextValues ==
    \/ \E t \in Types, u \in Types :
          /\ typeMappings[t].discriminatorValue = Undefined
          /\ setDiscriminatorValue(t, getName(u))
    \/ \E t \in Types : addDefaultMappings(t)

\* the provider setting the discriminator value of types that have none and
\* adding the defaults, in any order
SpecValues == InitDiscriminator /\ [][NextValues]_vars

\* a Configuration on which the collectionPrefix property may have been set
InitCollection ==
    /\ NoUnitOfWork
    /\ Linked
    /\ props = NewProps
    /\ typeMappings = [t \in Types |-> NewTypeMapping]
    /\ history = NoHistory
    /\ \E prefix \in {Undefined, "ns."} :
          config = [NewConfiguration(NoOptions) EXCEPT !.collectionPrefix = prefix]
    /\ call = NoFactoryCall
    /\ last = NoCall

\* the provider setting discriminator values and adding the defaults, which
\* are handed the Configuration, to type mappings without a collection name
SpecCollection == InitCollection /\ [][NextValues]_vars

\* the provider adding the defaults, in any order, to type mappings on which
\* it has set some attributes
SpecDefaults == InitDefaults /\ [][NextDefaults]_vars

\* ------------------------------------------------------------------ configuration actions
InitFactory ==
    /\ NoUnitOfWork
    /\ NoRegistry
    /\ last = NoCall
    /\ config \in {NewConfiguration(options) : options \in Options}
    /\ call = NoFactoryCall

\* createSessionFactory(callback) or createSessionFactory(connection,
\* callback), called when no earlier call is still under way
createSessionFactory(withConnection) ==
    LET f == createSessionFactoryResult(Factory, withConnection) IN
    /\ call.stage = "none" \/ Quiescent(call)
    /\ config' = f.config
    /\ call' = f.call
    /\ last' = [op |-> "createSessionFactory", obj |-> UndefinedObj, result |-> f.call.thrown]
    /\ UNCHANGED <<unitOfWork, registry>>

\* the callback createSessionFactory passed to driver.connect
connect(err) ==
    LET f == IF err /= NoError
             THEN [Factory EXCEPT !.call = deliver([@ EXCEPT !.stage = "returned"], err)]
             ELSE createFactory(Factory) IN
    /\ call.stage = "connect"
    /\ config' = f.config
    /\ call' = f.call
    /\ last' = [op |-> "connect", obj |-> UndefinedObj, result |-> err]
    /\ UNCHANGED <<unitOfWork, registry>>

\* the callback _createFactory passed to getMapping; the provider delivers
\* an error or a registry
getMapping(err, mappings) ==
    /\ call.stage = "getMapping"
    /\ call' = IF err /= NoError
               THEN deliver([call EXCEPT !.stage = "returned"], err)
               ELSE buildCollections(call, mappings)
    /\ last' = [op |-> "getMapping", obj |-> UndefinedObj, result |-> err]
    /\ UNCHANGED <<unitOfWork, registry, config>>

\* the callback the iterator passed to db.collectionNames for mapping i
collectionNames(i, err) ==
    /\ i \in DOMAIN call.items
    /\ call.items[i] = "collectionNames"
    /\ call' = IF err /= NoError THEN done(call, i, err)
               ELSE [call EXCEPT !.items[i] = "collection"]
    /\ last' = [op |-> "collectionNames", obj |-> UndefinedObj, result |-> err]
    /\ UNCHANGED <<unitOfWork, registry, config>>

\* the callback passed to db.createCollection or db.collection for mapping i
collection(i, err) ==
    /\ i \in DOMAIN call.items
    /\ call.items[i] = "collection"
    /\ call' = IF err /= NoError THEN done(call, i, err)
               ELSE done([call EXCEPT !.collections = @ \cup {i}], i, NoError)
    /\ last' = [op |-> "collection", obj |-> UndefinedObj, result |-> err]
    /\ UNCHANGED <<unitOfWork, registry, config>>

\* the event loop runs the oldest callback done() has queued
nextTick ==
    /\ call.queue /= <<>>
    /\ call' = eachDone([call EXCEPT !.queue = Tail(@)],
                        Head(call.queue).item, Head(call.queue).err)
    /\ last' = [op |-> "nextTick", obj |-> UndefinedObj, result |-> Head(call.queue).err]
    /\ UNCHANGED <<unitOfWork, registry, config>>

NextFactory ==
    \/ \E withConnection \in BOOLEAN : createSessionFactory(withConnection)
    \/ \E err \in {NoError, ErrDriver} : connect(err)
    \/ getMapping(ErrProvider, <<>>)
    \/ \E mappings \in Registries : getMapping(NoError, mappings)
    \/ \E i \in 1..NMappings, err \in {NoError, ErrDriver} : collectionNames(i, err)
    \/ \E i \in 1..NMappings, err \in {NoError, ErrDriver} : collection(i, err)
    \/ nextTick

\* the calls of createSessionFactory on one Configuration, with the driver's
\* and the mapping provider's callbacks arriving in any order
SpecFactory == InitFactory /\ [][NextFactory]_vars

\* ------------------------------------------------------------------ claims
KeyOf(o) == getObjectId(Uow, o)
StateOf(o) == getObjectState(Uow, o)
Mapped(o) == mappingOf[o] /= NoMapping
Returned == last'.result = NoError
OthersKeepId(o) == \A p \in Objs \ {o} : ids'[p] = ids[p]
InsertErrors == {ErrInsertDirty, ErrInsertRemoved, ErrInsertTwice}

\* C1: whenever save on a mapped object in state New returns normally, the
\* object carries an identity from the driver, that identity has been added to
\* the scheduled insertions with the object, the object is registered in the
\* identity map under it with state Managed, and the scheduled updates, the
\* scheduled deletions and the dirty-check set are as before.
C1_SaveNew ==
    [][\A o \in Objs :
        (last'.op = "save" /\ Mapped(o) /\ StateOf(o) = New /\ Returned /\ save(o)) =>
            /\ ids'[o] \in ObjectIds
            /\ OthersKeepId(o)
            /\ LET id == toHexString(ids'[o]) IN
                /\ scheduledInsertions' = setProperty(scheduledInsertions, id, o)
                /\ identityMap' = setProperty(identityMap, id, o)
                /\ objectStates' = setProperty(objectStates, id, Managed)
            /\ UNCHANGED <<scheduledUpdates, scheduledDeletions, scheduledDirtyCheck>>]_vars

C1_Witness ==
    /\ last.op = "save" /\ last.result = NoError
    /\ \E o \in Objs :
        /\ KeyOf(o) /= UndefinedKey
        /\ hasProperty(scheduledInsertions, KeyOf(o))
        /\ scheduledInsertions[KeyOf(o)] = o
        /\ getProperty(identityMap, KeyOf(o)) = o
        /\ StateOf(o) = Managed

\* C2: remove on a mapped Managed object that is not pending insertion takes
\* its identity out of the identity map, deletes any scheduled update for it,
\* schedules the deletion of that identity and of no other, records the state
\* Removed, and returns normally.
C2_RemoveManaged ==
    [][\A o \in Objs :
        (last'.op = "remove" /\ Mapped(o) /\ StateOf(o) = Managed
            /\ ~hasProperty(scheduledInsertions, KeyOf(o)) /\ remove(o)) =>
            /\ Returned
            /\ identityMap' = deleteProperty(identityMap, KeyOf(o))
            /\ scheduledUpdates' = deleteProperty(scheduledUpdates, KeyOf(o))
            /\ scheduledDeletions' = setProperty(scheduledDeletions, KeyOf(o), o)
            /\ objectStates' = setProperty(objectStates, KeyOf(o), Removed)
            /\ UNCHANGED <<ids, scheduledInsertions, scheduledDirtyCheck>>]_vars

C2_Witness ==
    /\ last.op = "remove" /\ last.result = NoError
    /\ \E o \in Objs :
        /\ StateOf(o) = Removed
        /\ getProperty(scheduledDeletions, KeyOf(o)) = o
        /\ ~hasProperty(identityMap, KeyOf(o))
        /\ ~hasProperty(scheduledInsertions, KeyOf(o))

\* C3: remove on an object whose insertion is still scheduled (it was saved as
\* a new object and nothing was flushed) returns normally and leaves its
\* identity in none of the scheduled insertions, deletions and updates.
C3_SaveThenRemove ==
    [][\A o \in Objs :
        (last'.op = "remove" /\ getProperty(scheduledInsertions, KeyOf(o)) = o
            /\ remove(o)) =>
            /\ Returned
            /\ ~hasProperty(scheduledInsertions', KeyOf(o))
            /\ ~hasProperty(scheduledDeletions', KeyOf(o))
            /\ ~hasProperty(scheduledUpdates', KeyOf(o))]_vars

C3_Witness ==
    /\ last.op = "remove" /\ last.result = NoError
    /\ \E o \in Objs :
        /\ StateOf(o) = Detached
        /\ hasProperty(objectStates, KeyOf(o))
        /\ ~hasProperty(scheduledInsertions, KeyOf(o))
        /\ ~hasProperty(scheduledDeletions, KeyOf(o))
        /\ ~hasProperty(scheduledUpdates, KeyOf(o))

\* C4: save on a Managed object returns normally and changes nothing but the
\* dirty-check set: under deferred-explicit tracking the set gains the
\* object's identity if it was not there and keeps a single entry for it if it
\* was; under deferred-implicit tracking the set is unchanged.
C4_SaveManaged ==
    [][\A o \in Objs :
        (last'.op = "save" /\ Mapped(o) /\ StateOf(o) = Managed /\ save(o)) =>
            /\ Returned
            /\ UNCHANGED <<ids, identityMap, objectStates, scheduledInsertions,
                           scheduledUpdates, scheduledDeletions>>
            /\ mappingOf[o] = DeferredExplicit =>
                 /\ DOMAIN scheduledDirtyCheck' = DOMAIN scheduledDirtyCheck \cup {KeyOf(o)}
                 /\ \A k \in DOMAIN scheduledDirtyCheck \ {KeyOf(o)} :
                        scheduledDirtyCheck'[k] = scheduledDirtyCheck[k]
            /\ mappingOf[o] = DeferredImplicit =>
                 scheduledDirtyCheck' = scheduledDirtyCheck]_vars

C4_Witness ==
    /\ last.op = "save" /\ last.result = NoError
    /\ \E o, p \in Objs :
        /\ mappingOf[o] = DeferredExplicit /\ StateOf(o) = Managed
        /\ getProperty(scheduledDirtyCheck, KeyOf(o)) = o
        /\ mappingOf[p] = DeferredImplicit /\ StateOf(p) = Managed
        /\ ~hasProperty(scheduledDirtyCheck, KeyOf(p))

\* C5: save and remove on a mapped Detached object throw the detached-object
\* error of the operation, save on a mapped Removed object throws the
\* removed-object error, and none of these calls returns normally whatever
\* the mapping.
C5_InvalidTransition ==
    [][\A o \in Objs :
        /\ (last'.op = "save" /\ StateOf(o) = Detached /\ save(o)) =>
              /\ ~Returned
              /\ Mapped(o) => last'.result = ErrSaveDetached
        /\ (last'.op = "remove" /\ StateOf(o) = Detached /\ remove(o)) =>
              /\ ~Returned
              /\ Mapped(o) => last'.result = ErrRemoveDetached
        /\ (last'.op = "save" /\ StateOf(o) = Removed /\ save(o)) =>
              /\ ~Returned
              /\ Mapped(o) => last'.result = ErrSaveRemoved]_vars

C5_Witness ==
    /\ last.op = "save" /\ last.result = ErrSaveRemoved
    /\ \E o \in Objs : StateOf(o) = Removed

\* C6: no identity is in the scheduled deletions and at the same time in the
\* scheduled insertions or the scheduled updates.
C6_DeletionsExclusive ==
    DOMAIN scheduledDeletions
        \cap (DOMAIN scheduledInsertions \cup DOMAIN scheduledUpdates) = {}

C6_Witness ==
    /\ DOMAIN scheduledDeletions /= {}
    /\ DOMAIN scheduledUpdates /= {}
    /\ last.op = "remove" /\ last.result = NoError

PairwiseDisjoint(S) == \A i, j \in DOMAIN S : i /= j => S[i] \cap S[j] = {}

\* C7 as stated: no identity is a key of two of the four scheduling tables
\* (insertions, updates, deletions, dirty checks) at once.
C7_FourTablesDisjoint ==
    PairwiseDisjoint(<<DOMAIN scheduledInsertions, DOMAIN scheduledUpdates,
                       DOMAIN scheduledDeletions, DOMAIN scheduledDirtyCheck>>)

\* C7 amended: no identity is a key of two of the three write tables
\* (insertions, updates, deletions) at once; the dirty-check table may share
\* identities with any of them.
C7_WriteTablesDisjoint ==
    PairwiseDisjoint(<<DOMAIN scheduledInsertions, DOMAIN scheduledUpdates,
                       DOMAIN scheduledDeletions>>)

C7_Witness ==
    /\ DOMAIN scheduledDirtyCheck \cap DOMAIN scheduledInsertions /= {}
    /\ DOMAIN scheduledUpdates /= {}

\* C8: save on a mapped New object for which the driver returns an identity
\* that is already in the scheduled updates, deletions or insertions throws
\* the error of the first of these tables holding it and leaves the scheduled
\* insertions as they were.
C8_InsertRejected ==
    [][\A o \in Objs :
        (last'.op = "save" /\ Mapped(o) /\ StateOf(o) = New /\ save(o)) =>
            LET id == toHexString(ids'[o]) IN
            /\ hasProperty(scheduledUpdates, id) => last'.result = ErrInsertDirty
            /\ (~hasProperty(scheduledUpdates, id) /\ hasProperty(scheduledDeletions, id))
                  => last'.result = ErrInsertRemoved
            /\ (~hasProperty(scheduledUpdates, id) /\ ~hasProperty(scheduledDeletions, id)
                  /\ hasProperty(scheduledInsertions, id))
                  => last'.result = ErrInsertTwice
            /\ last'.result \in InsertErrors =>
                  scheduledInsertions' = scheduledInsertions]_vars

C8_Witness ==
    /\ last.op = "save" /\ last.result = ErrInsertRemoved
    /\ DOMAIN scheduledDeletions /= {}

\* C9 as stated: a save, remove or load that fails leaves the identity map,
\* the recorded object states, the four scheduling tables and the identity of
\* every object (so also the state of the object passed in) as they were.
C9_FailureChangesNothing ==
    [][(last'.op \in {"save", "remove", "load", "callback"} /\ ~Returned)
          => UNCHANGED <<ids, tables>>]_vars

\* C10: load of a document whose identity is in the identity map queues one
\* callback carrying the object registered under that identity, changes no
\* table and no object, and the object is the one every load of that identity
\* has answered with since the last remove.
C10_LoadHit ==
    [][\A d \in Objs :
        (last'.op = "load" /\ hasProperty(identityMap, KeyOf(d)) /\ load(d)) =>
            /\ ticks' = Append(ticks, [err |-> NoError, obj |-> identityMap[KeyOf(d)]])
            /\ UNCHANGED <<ids, tables>>
            /\ hasProperty(handedOut, KeyOf(d)) =>
                  handedOut[KeyOf(d)].obj = identityMap[KeyOf(d)]]_vars

C10_Witness ==
    /\ last.op = "load"
    /\ Len(ticks) = 1 /\ ticks[1].err = NoError
    /\ \E k \in DOMAIN handedOut :
          /\ handedOut[k].again
          /\ handedOut[k].obj = ticks[1].obj
          /\ getProperty(identityMap, k) = ticks[1].obj

\* C11: load of a document without a primary key returns normally, invokes
\* nothing synchronously, queues exactly one callback invocation carrying the
\* missing-primary-key error and no object, and changes neither the identity
\* map nor any other table nor any object.
C11_LoadMissingKey ==
    [][\A d \in Objs :
        (last'.op = "load" /\ KeyOf(d) = UndefinedKey /\ load(d)) =>
            /\ Returned
            /\ ticks' = Append(ticks, [err |-> ErrMissingKey, obj |-> UndefinedObj])
            /\ UNCHANGED <<ids, tables>>]_vars

C11_Witness ==
    /\ last.op = "callback" /\ last.result = ErrMissingKey /\ last.obj = UndefinedObj
    /\ ticks = <<>>
    /\ identityMap = EmptyMap

\* C12 as stated: load of a document whose primary key is not in the identity
\* map registers an instance under that key with state Managed and queues a
\* callback invocation that delivers the registered instance without error.
C12_LoadMiss ==
    [][\A d \in Objs :
        (last'.op = "load" /\ KeyOf(d) /= UndefinedKey
            /\ ~hasProperty(identityMap, KeyOf(d)) /\ load(d)) =>
            /\ hasProperty(identityMap', KeyOf(d))
            /\ getProperty(objectStates', KeyOf(d)) = Managed
            /\ Len(ticks') = Len(ticks) + 1
            /\ ticks'[Len(ticks')] = [err |-> NoError, obj |-> identityMap'[KeyOf(d)]]]_vars

\* Writes of a flush, as the tables held them when flush was called
KindOrder == <<"insert", "update", "delete">>
KindRank(w) == CHOOSE n \in DOMAIN KindOrder : KindOrder[n] = w.kind
Scheduled ==
    {[kind |-> "insert", key |-> k] : k \in DOMAIN scheduledInsertions}
    \cup {[kind |-> "update", key |-> k] :
              k \in DOMAIN scheduledUpdates \cup DOMAIN scheduledDirtyCheck}
    \cup {[kind |-> "delete", key |-> k] : k \in DOMAIN scheduledDeletions}

\* C13 as stated: flush hands the driver the scheduled writes, every insertion
\* before every update and every update before every deletion.
C13_FlushOrder ==
    [][last'.op = "flush" =>
        /\ Len(issued') >= Len(issued)
        /\ SubSeq(issued', 1, Len(issued)) = issued
        /\ LET new == SubSeq(issued', Len(issued) + 1, Len(issued')) IN
            /\ \A w \in Scheduled : w.kind /= "update" =>
                   \E i \in DOMAIN new : new[i] = w
            /\ \A k \in DOMAIN scheduledUpdates :
                   \E i \in DOMAIN new : new[i] = [kind |-> "update", key |-> k]
            /\ \A i \in DOMAIN new : new[i] \in Scheduled
            /\ \A i, j \in DOMAIN new :
                   i < j => KindRank(new[i]) <= KindRank(new[j])]_vars

\* C14 as stated: once flush has returned without error the scheduled
\* insertions, updates, deletions and the dirty-check set are empty, and the
\* objects that were pending insertion or update are Managed in the identity map.
C14_FlushClears ==
    [][(last'.op = "flush" /\ Returned) =>
        /\ scheduledInsertions' = EmptyMap
        /\ scheduledUpdates' = EmptyMap
        /\ scheduledDeletions' = EmptyMap
        /\ scheduledDirtyCheck' = EmptyMap
        /\ \A k \in DOMAIN scheduledInsertions \cup DOMAIN scheduledUpdates :
               /\ hasProperty(identityMap', k)
               /\ getProperty(objectStates', k) = Managed]_vars

\* C16: addProperty with a name or an external field name that a property of
\* the ordered list already has fails with one of the two duplicate errors
\* and leaves the list as it was; after every addProperty, failed or not, the
\* names in the list are pairwise distinct and so are the field names.
C16_AddPropertyDuplicate ==
    [][\A name \in Names, field \in Fields :
        (last'.op = "addProperty" /\ addProperty([name |-> name, field |-> field])) =>
            /\ (\E i \in DOMAIN props.properties :
                    \/ props.properties[i].name = name
                    \/ props.properties[i].field = field)
                 => /\ last'.result \in {ErrDupName, ErrDupField}
                    /\ props'.properties = props.properties
            /\ \A i, j \in DOMAIN props'.properties :
                  i /= j => /\ props'.properties[i].name /= props'.properties[j].name
                            /\ props'.properties[i].field /= props'.properties[j].field]_vars

C16_Witness ==
    /\ last.op = "addProperty" /\ last.result = ErrDupField
    /\ Len(props.properties) >= 2

\* C17: setDiscriminatorValue(value) on a type fails with the duplicate
\* discriminator error, leaving the root's table as it was, when another type
\* under the same root holds the value (as its discriminatorValue or in the
\* table); it succeeds and enters the value for the type when the root's table
\* lacks the value, whatever the tables of other roots hold; and no value of
\* a root's table ever passes from one type to another.
C17_DiscriminatorUnique ==
    [][\A t, u \in Types :
        LET value == getName(u)
            root == rootType[t]
            table == typeMappings[root].discriminatorMap
        IN  (last'.op = "setDiscriminatorValue" /\ setDiscriminatorValue(t, value)) =>
            /\ (\E o \in Types \ {t} :
                    /\ rootType[o] = root
                    /\ \/ typeMappings[o].discriminatorValue = value
                       \/ getProperty(table, value) = o)
                 => /\ last'.result = ErrDupDiscriminator
                    /\ typeMappings'[root].discriminatorMap = table
            /\ ~hasProperty(table, value)
                 => /\ Returned
                    /\ typeMappings'[root].discriminatorMap = setProperty(table, value, t)
            /\ \A v \in DOMAIN table : typeMappings'[root].discriminatorMap[v] = table[v]]_vars

C17_Witness ==
    /\ last.op = "setDiscriminatorValue" /\ last.result = ErrDupDiscriminator
    /\ LET t == last.obj
           value == typeMappings[t].discriminatorValue
       IN  \E o \in Types \ {t} :
              /\ rootType[o] = rootType[t]
              /\ getProperty(typeMappings[rootType[t]].discriminatorMap, value) = o

\* C18: no type mapping that is not a root holds an index, and every root
\* holds exactly the indexes added through the types of its hierarchy, in the
\* order of the calls.
C18_IndexesOnRoot ==
    \A t \in Types :
        /\ ~isRootType(t) => typeMappings[t].indexes = UndefinedIndexes
        /\ isRootType(t) =>
              typeMappings[t].indexes =
                  IF history.indexes[t] = <<>> THEN UndefinedIndexes
                  ELSE history.indexes[t]

C18_Witness ==
    /\ last.op = "addIndex"
    /\ ~isRootType(last.obj)
    /\ Len(history.indexes[rootType[last.obj]]) >= 2
    /\ typeMappings[rootType[last.obj]].indexes = history.indexes[rootType[last.obj]]

\* the system defaults of the attributes of a root document type
Defaults ==
    [discriminatorField |-> "__t",
     lockField |-> "__l",
     versionField |-> "__v",
     changeTracking |-> DeferredImplicit]

\* C19: addDefaultMappings on a root document type leaves each of the
\* discriminator field, the lock field, the version field and the change
\* tracking at its default if it was unset and at its value if it was set.
C19_RootDefaults ==
    [][\A t \in Types :
        (last'.op = "addDefaultMappings" /\ isDocumentType(t) /\ isRootType(t)
            /\ addDefaultMappings(t)) =>
            \A f \in DOMAIN Defaults :
                typeMappings'[t][f] =
                    IF typeMappings[t][f] = Undefined THEN Defaults[f]
                    ELSE typeMappings[t][f]]_vars

C19_Witness ==
    /\ last.op = "addDefaultMappings" /\ last.result = NoError
    /\ isDocumentType(last.obj) /\ isRootType(last.obj)
    /\ typeMappings[last.obj].discriminatorField = "type"
    /\ typeMappings[last.obj].lockField = "__l"
    /\ typeMappings[last.obj].versionField = "__v"
    /\ typeMappings[last.obj].changeTracking = DeferredImplicit

\* C20: a document type that is not a root and on which addDefaultMappings
\* was run after it was run on its root has the discriminator field of its
\* root, which is the root's explicit name or "__t".
C20_InheritedDiscriminatorField ==
    \A t \in Types :
        (isDocumentType(t) /\ ~isRootType(t) /\ history.defaults[t] = RunAfterRoot) =>
            /\ typeMappings[t].discriminatorField
                  = typeMappings[rootType[t]].discriminatorField
            /\ typeMappings[t].discriminatorField \in {"__t", "type"}

C20_Witness ==
    \E t \in Types :
        /\ isDocumentType(t) /\ ~isRootType(t)
        /\ history.defaults[t] = RunAfterRoot
        /\ typeMappings[t].discriminatorField = "__t"
        /\ typeMappings[rootType[t]].discriminatorField = "__t"

\* C21: addDefaultMappings on a document type whose discriminator value is
\* unset makes the type's name its value and enters the name for the type in
\* the root's table, or fails with the duplicate discriminator error and an
\* unchanged table when the table already holds the name; on a document type
\* whose discriminator value is set it keeps the value and the table.
C21_DefaultDiscriminatorValue ==
    [][\A t \in Types :
        LET root == rootType[t]
            table == typeMappings[root].discriminatorMap
        IN  (last'.op = "addDefaultMappings" /\ isDocumentType(t)
                /\ addDefaultMappings(t)) =>
            /\ typeMappings[t].discriminatorValue = Undefined =>
                 /\ typeMappings'[t].discriminatorValue = getName(t)
                 /\ IF hasProperty(table, getName(t))
                    THEN /\ last'.result = ErrDupDiscriminator
                         /\ typeMappings'[root].discriminatorMap = table
                    ELSE /\ Returned
                         /\ typeMappings'[root].discriminatorMap
                               = setProperty(table, getName(t), t)
            /\ typeMappings[t].discriminatorValue /= Undefined =>
                 /\ Returned
                 /\ typeMappings'[t].discriminatorValue = typeMappings[t].discriminatorValue
                 /\ typeMappings'[root].discriminatorMap = table]_vars

C21_Witness ==
    /\ last.op = "addDefaultMappings" /\ last.result = NoError
    /\ \E t \in Types \ {last.obj} :
          /\ rootType[t] = rootType[last.obj]
          /\ typeMappings[t].discriminatorValue /= getName(t)
          /\ typeMappings[t].discriminatorValue /= Undefined
          /\ history.defaults[t] /= NotRun
          /\ typeMappings[last.obj].discriminatorValue = getName(last.obj)
          /\ getProperty(typeMappings[rootType[t]].discriminatorMap, getName(last.obj))
                = last.obj

\* C27 as stated: for every type t, every type o of t's hierarchy and every
\* value, getMappingByDiscriminator(value) called on t returns o exactly when
\* value is the discriminator value o holds.
C27_TableAgreesWithValues ==
    \A t, o, u \in Types :
        rootType[o] = rootType[t] =>
            (getMappingByDiscriminator(Registry, t, getName(u)) = o
                <=> typeMappings[o].discriminatorValue = getName(u))

\* the properties a lookup map holds
Held(map) == {map[k] : k \in DOMAIN map}

\* C28 as stated: the ordered property list, the by-name map and the
\* by-field map hold the same properties, and an addProperty that fails
\* leaves all three as they were.
C28_PropertyTablesAgree ==
    [][last'.op = "addProperty" =>
        /\ Held(props'.properties) = Held(props'.propertiesByName)
        /\ Held(props'.properties) = Held(props'.propertiesByField)
        /\ ~Returned =>
              /\ props'.properties = props.properties
              /\ props'.propertiesByName = props.propertiesByName
              /\ props'.propertiesByField = props.propertiesByField]_vars

\* C29 as stated: addDefaultMappings on a document type whose root has been
\* run (or that is the root) leaves the type with the change tracking set on
\* it, and if none was set with the change tracking of its root.
C29_ChangeTrackingCascades ==
    [][\A t \in Types :
        (last'.op = "addDefaultMappings" /\ isDocumentType(t)
            /\ (isRootType(t) \/ history.defaults[rootType[t]] /= NotRun)
            /\ addDefaultMappings(t)) =>
            /\ typeMappings'[t].changeTracking \in {DeferredImplicit, DeferredExplicit}
            /\ typeMappings'[t].changeTracking =
                  IF typeMappings[t].changeTracking /= Undefined
                  THEN typeMappings[t].changeTracking
                  ELSE typeMappings'[rootType[t]].changeTracking]_vars

RootsOf(c) == {i \in DOMAIN c.mappings : c.mappings[i].root}

\* the database/collection pair mapping m resolves to
Pair(m) ==
    <<IF m.databaseName = Undefined THEN ConnectionDb ELSE m.databaseName,
      m.collectionName>>

SamePair(c) ==
    \E i, j \in RootsOf(c) : i /= j /\ Pair(c.mappings[i]) = Pair(c.mappings[j])

GotFactory(c) == \E k \in DOMAIN c.delivered : c.delivered[k].factory
GotError(c) == \E k \in DOMAIN c.delivered : ~c.delivered[k].factory

\* C23: once _buildCollections has started: if two inheritance roots resolve
\* to the same database/collection pair, no session factory is delivered
\* and, when nothing of the call is outstanding, an error has been; the
\* duplicate-name error is delivered only if two roots share a pair, and
\* only roots are filed under a name (mappings that are not roots take no
\* part); a delivered session factory comes with exactly one collection
\* entry per inheritance root and none for any other mapping.
C23_BuildCollections ==
    call.stage = "building" =>
        /\ SamePair(call) =>
              /\ ~GotFactory(call)
              /\ Quiescent(call) => GotError(call)
        /\ \A k \in DOMAIN call.delivered :
              call.delivered[k].err = ErrDuplicateCollection => SamePair(call)
        /\ call.names \subseteq
              {key(call.mappings[i]) : i \in {r \in RootsOf(call) :
                                                 call.mappings[r].collectionName /= Undefined}}
        /\ GotFactory(call) => call.collections = RootsOf(call)

C23_Witness ==
    /\ call.stage = "building"
    /\ Quiescent(call)
    /\ \E i, j \in RootsOf(call) :
          /\ call.mappings[i].databaseName = Undefined
          /\ call.mappings[j].databaseName = ConnectionDb
          /\ call.mappings[i].collectionName = call.mappings[j].collectionName
    /\ call.delivered = <<[err |-> ErrDuplicateCollection, factory |-> FALSE]>>

\* C30: a call of createSessionFactory raises nothing, never invokes its
\* callback more than once, has invoked it exactly once when nothing of the
\* call is outstanding, and each invocation carries an error or a session
\* factory and not both.
C30_ExactlyOneCallback ==
    /\ call.thrown = NoError
    /\ Len(call.delivered) <= 1
    /\ Quiescent(call) => Len(call.delivered) = 1
    /\ \A k \in DOMAIN call.delivered :
          call.delivered[k].factory <=> call.delivered[k].err = NoError

\* String.prototype.toLowerCase on a type name
toLowerCase(name) ==
    <<"a", "b", "c", "d", "e", "f">>[CHOOSE i \in DOMAIN TypeNames : TypeNames[i] = name]

\* C22: after the defaults were added to a root document type without an
\* explicit collection name, its collection name is the type's declared name
\* when the configuration has no collection prefix, and the prefix followed
\* by the name (as declared or in lower case) when it has one.
C22_PrefixedCollectionName ==
    \A t \in Types :
        (isDocumentType(t) /\ isRootType(t) /\ history.defaults[t] /= NotRun) =>
            IF config.collectionPrefix = Undefined
            THEN typeMappings[t].collectionName = getName(t)
            ELSE typeMappings[t].collectionName \in
                    {config.collectionPrefix \o getName(t),
                     config.collectionPrefix \o toLowerCase(getName(t))}

\* C31: on a configuration whose declarationFiles option is present and not
\* an array, no call of createSessionFactory gets past the check of the
\* option in _createFactory: no call asks the provider for the mappings or
\* builds collections, none delivers a session factory, and a call that is
\* not stopped before _createFactory (by the uri check or a failed connect)
\* reports the declarationFiles error.
C31_FilesErrorEveryCall ==
    config.options.declarationFiles = FilesNotArray =>
        /\ call.stage \notin {"getMapping", "building"}
        /\ ~GotFactory(call)
        /\ \A k \in DOMAIN call.delivered :
              call.delivered[k].err \in
                  {ErrFilesType, ErrUriType, ErrNoConnection, ErrDriver}

====
